---- MODULE Spec2Model ----
(***************************************************************************)
(* Content-generator unification layer of voyager-cli: the model mapping   *)
(* table, the provider adapters (gateway, OpenAI, Anthropic, native        *)
(* pass-through), their stream normalizers and the adapter factory.        *)
(*                                                                         *)
(* Text is a sequence of tokens.  A token stands for a newline-free piece  *)
(* of text, except NL, which is the newline character.  "data:" followed   *)
(* by " " is the frame prefix 'data: '.                                    *)
(***************************************************************************)
EXTENDS Integers, Sequences, FiniteSets, TLC

VARIABLES
    \* ---- streaming calls (one entry per call of generateContentStream)
    kind,           \* adapter the call runs on: "api", "openai", "anthropic", "none"
    pc,             \* position of the call's generator
    wire,           \* gateway transport: the text the response body will deliver
    sdkWire,        \* SDK transport: the native chunks the iterator will deliver
    pos,            \* how much of the transport has been read
    buffer,         \* convertApiStreamToGemini: let buffer
    pending,        \* convertApiStreamToGemini: lines of the block not yet looped over
    delivered,      \* chunks the consumer has received, in order
    readerHeld,     \* the transport's read handle is held (reader lock / open stream)
    releaseCalls,   \* number of reader.releaseLock() / iterator.return() calls
    transportCalls, \* number of transport invocations (fetch / create)
    outcome,        \* "none", "completed", "error", "cancelled"
    err,            \* message of the error that reached the caller
    reassembled,    \* a frame split across blocks has been emitted
    \* ---- model mapping lookups
    mdl,            \* the id the lookups are applied to
    trail,          \* lookups applied so far
    looked,         \* result of the last lookup
    \* ---- factory
    env,            \* process.env credentials
    authType,       \* requested authentication mode
    config,         \* ContentGeneratorConfig
    fpc,            \* position of the factory
    constructed,    \* adapter constructors invoked by createContentGenerator
    generator,      \* value returned by createContentGenerator
    ferr,           \* error raised by createContentGenerator
    \* ---- single-shot operations
    opKind,         \* adapter the operation runs on
    opName,         \* "generateContent", "countTokens", "embedContent"
    opContents,     \* request.contents
    opRequest,      \* what generateContent hands to its transport
    opResponse,     \* the native response the transport of generateContent answered with
    opPc,           \* "call", "transport", "done"
    opCalls,        \* transport invocations of the operation
    opResult,       \* value returned to the caller
    opErr           \* message of the error raised to the caller

streamVars == <<kind, pc, wire, sdkWire, pos, buffer, pending, delivered, readerHeld,
                releaseCalls, transportCalls, outcome, err, reassembled>>
mapVars == <<mdl, trail, looked>>
factoryVars == <<env, authType, config, fpc, constructed, generator, ferr>>
opVars == <<opKind, opName, opContents, opRequest, opResponse, opPc, opCalls, opResult, opErr>>
vars == <<streamVars, mapVars, factoryVars, opVars>>

\* ------------------------------------------------------------------ bounds

MaxLines == 3       \* lines of a gateway transport text
MaxBlock == 4       \* tokens one reader.read() delivers at most
MaxChunks == 3      \* native chunks of an SDK stream
MaxEntries == 2     \* entries of request.contents
MaxTrail == 2       \* lookups chained on one id

\* ------------------------------------------------------------------ helpers

UNDEF == "undefined"
NL == "\n"

Min(a, b) == IF a < b THEN a ELSE b

Front(s) == SubSeq(s, 1, Len(s) - 1)

Last(s) == s[Len(s)]

\* All sequences over S of length 0..n
SeqsUpTo(S, n) == UNION {[1..k -> S] : k \in 0..n}

\* ------------------------------------------------------------------ canonical shapes

STOP == "STOP"
MAX_TOKENS == "MAX_TOKENS"
SAFETY == "SAFETY"
FINISH_REASON_UNSPECIFIED == "FINISH_REASON_UNSPECIFIED"

\* new GenerateContentResponse() with candidates = [{content: {parts: [{text}], role: 'model'}, finishReason}]
GeminiResponse(text, reason) ==
    [candidates |-> << [content |-> [parts |-> << [text |-> text] >>, role |-> "model"],
                        finishReason |-> reason] >>]

\* ------------------------------------------------------------------ gateway stream: text

\* 'data: '
DataPrefix == <<"data:", " ">>

\* A payload is JSON text in two tokens: the chunk member, then the finished member.
\*   "a" ~ {"chunk":"a",    "b" ~ {"chunk":"b",    "e" ~ {"chunk":"",
\*   "T" ~ "finished":true} "F" ~ "finished":false}
\* "x" is text that is no JSON.
ChunkTokens == {"a", "b", "e"}
FlagTokens == {"T", "F"}

ChunkText(t) == IF t = "e" THEN "" ELSE t

IsSpace(t) == t = " "

\* String.prototype.trim
RECURSIVE TrimLeft(_)
TrimLeft(s) == IF s # <<>> /\ IsSpace(Head(s)) THEN TrimLeft(Tail(s)) ELSE s

RECURSIVE TrimRight(_)
TrimRight(s) == IF s # <<>> /\ IsSpace(Last(s)) THEN TrimRight(Front(s)) ELSE s

Trim(s) == TrimRight(TrimLeft(s))

\* String.prototype.startsWith
StartsWith(s, p) == Len(s) >= Len(p) /\ SubSeq(s, 1, Len(p)) = p

\* String.prototype.slice(n)
Slice(s, n) == SubSeq(s, n + 1, Len(s))

\* String.prototype.split('\n'): always at least one piece
RECURSIVE Split(_)
Split(s) ==
    IF \A i \in 1..Len(s) : s[i] # NL
    THEN <<s>>
    ELSE LET i == CHOOSE j \in 1..Len(s) : s[j] = NL /\ \A k \in 1..(j - 1) : s[k] # NL
         IN  <<SubSeq(s, 1, i - 1)>> \o Split(Slice(s, i))

\* JSON.parse of a payload: surrounding whitespace is allowed, anything that is not
\* a whole payload throws (ok = FALSE)
JSONParse(p) ==
    LET q == Trim(p)
    IN  IF Len(q) = 2 /\ q[1] \in ChunkTokens /\ q[2] \in FlagTokens
        THEN [ok |-> TRUE, chunk |-> ChunkText(q[1]), finished |-> q[2] = "T"]
        ELSE [ok |-> FALSE, chunk |-> UNDEF, finished |-> FALSE]

NoEmit == [emit |-> FALSE, throws |-> FALSE, chunk |-> UNDEF]

\* The body of `for (const line of lines)` without the catch: a payload that does
\* not parse raises out of the loop.
ProcessLineNoCatch(line) ==
    IF Trim(line) = <<>> THEN NoEmit
    ELSE IF StartsWith(line, DataPrefix)
    THEN LET data == JSONParse(Slice(line, Len(DataPrefix)))
         IN  IF ~data.ok THEN [emit |-> FALSE, throws |-> TRUE, chunk |-> UNDEF]
             ELSE IF data.chunk # ""
             THEN [emit |-> TRUE, throws |-> FALSE,
                   chunk |-> GeminiResponse(data.chunk,
                                IF data.finished THEN STOP ELSE FINISH_REASON_UNSPECIFIED)]
             ELSE NoEmit
    ELSE NoEmit

\* The body of `for (const line of lines)` for one line
ProcessLine(line) ==
    IF Trim(line) = <<>> THEN NoEmit
    ELSE IF StartsWith(line, DataPrefix)
    THEN LET data == JSONParse(Slice(line, Len(DataPrefix)))
         IN  IF ~data.ok THEN NoEmit     \* catch (parseError) { continue }
             ELSE IF data.chunk # ""
             THEN [emit |-> TRUE, throws |-> FALSE,
                   chunk |-> GeminiResponse(data.chunk,
                                IF data.finished THEN STOP ELSE FINISH_REASON_UNSPECIFIED)]
             ELSE NoEmit
    ELSE NoEmit

\* The for loop over `lines`, run to its next suspension: the first line that
\* yields (rest = the lines after it), a raise, or the end of the loop.
RECURSIVE RunLines(_)
RunLines(ls) ==
    IF ls = <<>> THEN [emit |-> FALSE, throws |-> FALSE, chunk |-> UNDEF, rest |-> <<>>]
    ELSE LET r == ProcessLine(Head(ls))
         IN  IF r.emit \/ r.throws
             THEN [emit |-> r.emit, throws |-> r.throws, chunk |-> r.chunk, rest |-> Tail(ls)]
             ELSE RunLines(Tail(ls))

\* buffer = lines.pop() || '' loses the retained fragment
KeepBufferDropped(ls) == <<>>

\* buffer = lines.pop() || ''
KeepBuffer(ls) == Last(ls)

\* ------------------------------------------------------------------ SDK streams: native chunks

\* OpenAIContentGenerator.convertFinishReason
OpenAIConvertFinishReason(reason) ==
    CASE reason = "stop" -> STOP
      [] reason = "length" -> MAX_TOKENS
      [] reason = "content_filter" -> SAFETY
      [] OTHER -> FINISH_REASON_UNSPECIFIED

\* convertFinishReason of Anthropic without the case 'stop_sequence'
AnthropicConvertFinishReasonNoSequence(reason) ==
    CASE reason = "end_turn" -> STOP
      [] reason = "max_tokens" -> MAX_TOKENS
      [] OTHER -> FINISH_REASON_UNSPECIFIED

\* AnthropicContentGenerator.convertFinishReason
AnthropicConvertFinishReason(reason) ==
    CASE reason = "end_turn" -> STOP
      [] reason = "max_tokens" -> MAX_TOKENS
      [] reason = "stop_sequence" -> STOP
      [] OTHER -> FINISH_REASON_UNSPECIFIED

\* x || '' for a string or undefined x
OrEmpty(x) == IF x = UNDEF THEN "" ELSE x

\* Loop body of convertOpenAIStreamToGemini for one native chunk
\* (chunk.choices?.[0]?.delta?.content, chunk.choices?.[0]?.finish_reason)
OpenAIStreamChunk(chunk) ==
    LET first == IF chunk.choices = <<>> THEN [content |-> UNDEF, finish_reason |-> UNDEF]
                 ELSE chunk.choices[1]
        content == OrEmpty(first.content)
    IN  IF content # ""
        THEN [emit |-> TRUE, throws |-> FALSE,
              chunk |-> GeminiResponse(content, OpenAIConvertFinishReason(first.finish_reason))]
        ELSE NoEmit

\* Loop body of convertAnthropicStreamToGemini for one native chunk
AnthropicStreamChunk(chunk) ==
    IF chunk.type = "content_block_delta"
    THEN LET content == OrEmpty(chunk.text)
         IN  IF content # ""
             THEN [emit |-> TRUE, throws |-> FALSE,
                   chunk |-> GeminiResponse(content, AnthropicConvertFinishReason(chunk.stop_reason))]
             ELSE NoEmit
    ELSE NoEmit

SdkStreamChunk(k, chunk) ==
    IF k = "openai" THEN OpenAIStreamChunk(chunk) ELSE AnthropicStreamChunk(chunk)

\* ------------------------------------------------------------------ transports the model draws from

CallIds == {"c1", "c2"}

GoodLineA == DataPrefix \o <<"a", "F">>
GoodLineB == DataPrefix \o <<"b", "T">>
EmptyChunkLine == DataPrefix \o <<"e", "F">>
MalformedLine == DataPrefix \o <<"x">>
BlankLine == <<" ">>
OtherLine == <<"x">>

GoodLines == {GoodLineA, GoodLineB}
LineKinds == GoodLines \cup {EmptyChunkLine, MalformedLine, BlankLine, OtherLine}

\* The lines joined by newlines; the last line is left unterminated when open
RECURSIVE JoinLines(_, _)
JoinLines(ls, open) ==
    IF ls = <<>> THEN <<>>
    ELSE IF Len(ls) = 1 /\ open THEN Head(ls)
    ELSE Head(ls) \o <<NL>> \o JoinLines(Tail(ls), open)

ApiWires == {JoinLines(ls, open) : ls \in SeqsUpTo(LineKinds, MaxLines), open \in BOOLEAN}

OpenAIChunks ==
    { [choices |-> <<>>],
      [choices |-> << [content |-> "a", finish_reason |-> UNDEF] >>],
      [choices |-> << [content |-> "b", finish_reason |-> "length"],
                      [content |-> "a", finish_reason |-> "stop"] >>],
      [choices |-> << [content |-> UNDEF, finish_reason |-> "stop"] >>] }

AnthropicChunks ==
    { [type |-> "content_block_delta", text |-> "a", stop_reason |-> UNDEF],
      [type |-> "content_block_delta", text |-> "b", stop_reason |-> UNDEF],
      [type |-> "content_block_delta", text |-> UNDEF, stop_reason |-> UNDEF],
      [type |-> "message_delta", text |-> UNDEF, stop_reason |-> "end_turn"] }

SdkWires(k) ==
    IF k = "openai" THEN SeqsUpTo(OpenAIChunks, MaxChunks)
    ELSE IF k = "anthropic" THEN SeqsUpTo(AnthropicChunks, MaxChunks)
    ELSE {<<>>}

\* Messages of the errors a transport raises
FetchFailed == <<"fetch failed">>
ReadFailed == <<"read failed">>
SdkFailed == <<"connection error">>

\* `${tag}: ${error instanceof Error ? error.message : String(error)}`
Tagged(tag, message) == <<tag>> \o message

\* The tag of the catch block of generateContentStream
StreamTag(k) ==
    CASE k = "api" -> "API content streaming error"
      [] k = "openai" -> "OpenAI API error"
      [] k = "anthropic" -> "Anthropic API error"

\* ------------------------------------------------------------------ streaming calls

IsSdk(c) == kind[c] \in {"openai", "anthropic"}

\* The generator ends by raising `message` to the consumer
Raise(c, message) ==
    /\ pc' = [pc EXCEPT ![c] = "done"]
    /\ outcome' = [outcome EXCEPT ![c] = "error"]
    /\ err' = [err EXCEPT ![c] = message]

\* finally { reader.releaseLock() } without the release
ReleaseLockSkipped(c) ==
    UNCHANGED <<readerHeld, releaseCalls>>

\* finally { reader.releaseLock() }
ReleaseLock(c) ==
    /\ readerHeld' = [readerHeld EXCEPT ![c] = FALSE]
    /\ releaseCalls' = [releaseCalls EXCEPT ![c] = @ + 1]

\* ApiContentGenerator.generateContentStream: builds the request and returns the
\* generator object; nothing of convertApiStreamToGemini has run yet.
ApiGenerateContentStream(c) ==
    /\ kind[c] = "api" /\ pc[c] = "idle"
    /\ pc' = [pc EXCEPT ![c] = "start"]
    /\ UNCHANGED <<mapVars, factoryVars, opVars, kind, wire, sdkWire, pos, buffer, pending, delivered, readerHeld,
                   releaseCalls, transportCalls, outcome, err, reassembled>>

\* OpenAI/AnthropicContentGenerator.generateContentStream: awaits create({stream: true})
\* inside the try; a failure is re-raised with the tag, otherwise the generator
\* object over the open stream is returned.
SdkGenerateContentStream(c) ==
    /\ IsSdk(c) /\ pc[c] = "idle"
    /\ transportCalls' = [transportCalls EXCEPT ![c] = @ + 1]
    /\ \E ok \in BOOLEAN :
          IF ok
          THEN /\ pc' = [pc EXCEPT ![c] = "start"]
               /\ readerHeld' = [readerHeld EXCEPT ![c] = TRUE]
               /\ UNCHANGED <<outcome, err>>
          ELSE /\ Raise(c, Tagged(StreamTag(kind[c]), SdkFailed))
               /\ UNCHANGED readerHeld
    /\ UNCHANGED <<mapVars, factoryVars, opVars, kind, wire, sdkWire, pos, buffer, pending, delivered,
                   releaseCalls, reassembled>>

\* convertApiStreamToGemini from the for loop over `ls` to the next suspension
ApiRunLoop(c, ls) ==
    LET r == RunLines(ls)
    IN  IF r.throws
        THEN /\ Raise(c, <<"SyntaxError">>)
             /\ ReleaseLock(c)
             /\ pending' = [pending EXCEPT ![c] = <<>>]
             /\ UNCHANGED delivered
        ELSE IF r.emit
        THEN /\ delivered' = [delivered EXCEPT ![c] = Append(@, r.chunk)]
             /\ pending' = [pending EXCEPT ![c] = r.rest]
             /\ pc' = [pc EXCEPT ![c] = "suspended"]
             /\ UNCHANGED <<readerHeld, releaseCalls, outcome, err>>
        ELSE /\ pending' = [pending EXCEPT ![c] = <<>>]
             /\ pc' = [pc EXCEPT ![c] = "reading"]
             /\ UNCHANGED <<delivered, readerHeld, releaseCalls, outcome, err>>

\* The consumer pulls: the first pull starts the generator body, which calls fetch;
\* a later pull resumes the for loop after the yield.
ApiPull(c) ==
    /\ kind[c] = "api"
    /\ \/ /\ pc[c] = "start"
          /\ pc' = [pc EXCEPT ![c] = "fetching"]
          /\ transportCalls' = [transportCalls EXCEPT ![c] = @ + 1]
          /\ UNCHANGED <<pending, delivered, readerHeld, releaseCalls, outcome, err>>
       \/ /\ pc[c] = "suspended"
          /\ ApiRunLoop(c, pending[c])
          /\ UNCHANGED transportCalls
    /\ UNCHANGED <<mapVars, factoryVars, opVars, kind, wire, sdkWire, pos, buffer, reassembled>>

\* await fetch(...) returns: network failure, non-ok status, no body, or a reader
ApiFetch(c) ==
    /\ kind[c] = "api" /\ pc[c] = "fetching"
    /\ \E o \in {"ok", "network", "notok", "nobody"} :
          CASE o = "ok" ->
                 /\ readerHeld' = [readerHeld EXCEPT ![c] = TRUE]
                 /\ pc' = [pc EXCEPT ![c] = "reading"]
                 /\ UNCHANGED <<outcome, err>>
            [] o = "network" ->
                 /\ Raise(c, FetchFailed)
                 /\ UNCHANGED readerHeld
            [] o = "notok" ->
                 /\ Raise(c, <<"API stream request failed", "500">>)
                 /\ UNCHANGED readerHeld
            [] o = "nobody" ->
                 /\ Raise(c, <<"No response body reader available">>)
                 /\ UNCHANGED readerHeld
    /\ UNCHANGED <<mapVars, factoryVars, opVars, kind, wire, sdkWire, pos, buffer, pending, delivered,
                   releaseCalls, transportCalls, reassembled>>

\* ApiReadBlock with the decode buffer as a field of the adapter: every call
\* running on the instance sees the fragment this call retains
ApiReadBlockSharedBuffer(c) ==
    /\ kind[c] = "api" /\ pc[c] = "reading"
    /\ pos[c] < Len(wire[c])
    /\ \E n \in 1..Min(MaxBlock, Len(wire[c]) - pos[c]) :
          LET value == SubSeq(wire[c], pos[c] + 1, pos[c] + n)
              lines == Split(buffer[c] \o value)
              complete == Front(lines)
          IN  /\ pos' = [pos EXCEPT ![c] = @ + n]
              /\ buffer' = [d \in CallIds |-> KeepBuffer(lines)]
              /\ reassembled' = [reassembled EXCEPT ![c] =
                                    @ \/ (/\ buffer[c] # <<>>
                                          /\ complete # <<>>
                                          /\ ProcessLine(Head(complete)).emit)]
              /\ ApiRunLoop(c, complete)
    /\ UNCHANGED <<mapVars, factoryVars, opVars, kind, wire, sdkWire, transportCalls>>

\* await reader.read() returns a block of n tokens: decode, split, keep the last
\* fragment, loop over the complete lines
ApiReadBlock(c) ==
    /\ kind[c] = "api" /\ pc[c] = "reading"
    /\ pos[c] < Len(wire[c])
    /\ \E n \in 1..Min(MaxBlock, Len(wire[c]) - pos[c]) :
          LET value == SubSeq(wire[c], pos[c] + 1, pos[c] + n)
              lines == Split(buffer[c] \o value)
              complete == Front(lines)
          IN  /\ pos' = [pos EXCEPT ![c] = @ + n]
              /\ buffer' = [buffer EXCEPT ![c] = KeepBuffer(lines)]
              /\ reassembled' = [reassembled EXCEPT ![c] =
                                    @ \/ (/\ buffer[c] # <<>>
                                          /\ complete # <<>>
                                          /\ ProcessLine(Head(complete)).emit)]
              /\ ApiRunLoop(c, complete)
    /\ UNCHANGED <<mapVars, factoryVars, opVars, kind, wire, sdkWire, transportCalls>>

\* await reader.read() returns done: break, finally
ApiReadDone(c) ==
    /\ kind[c] = "api" /\ pc[c] = "reading"
    /\ pos[c] = Len(wire[c])
    /\ pc' = [pc EXCEPT ![c] = "done"]
    /\ outcome' = [outcome EXCEPT ![c] = "completed"]
    /\ ReleaseLock(c)
    /\ UNCHANGED <<mapVars, factoryVars, opVars, kind, wire, sdkWire, pos, buffer, pending, delivered,
                   transportCalls, err, reassembled>>

\* await reader.read() rejects: the error leaves through the finally
ApiReadError(c) ==
    /\ kind[c] = "api" /\ pc[c] = "reading"
    /\ Raise(c, ReadFailed)
    /\ ReleaseLock(c)
    /\ UNCHANGED <<mapVars, factoryVars, opVars, kind, wire, sdkWire, pos, buffer, pending, delivered,
                   transportCalls, reassembled>>

\* The consumer pulls from an SDK generator: the for await asks the iterator for
\* the next native chunk
SdkPull(c) ==
    /\ IsSdk(c) /\ pc[c] \in {"start", "suspended"}
    /\ pc' = [pc EXCEPT ![c] = "reading"]
    /\ UNCHANGED <<mapVars, factoryVars, opVars, kind, wire, sdkWire, pos, buffer, pending, delivered, readerHeld,
                   releaseCalls, transportCalls, outcome, err, reassembled>>

\* The iterator delivers a native chunk: yield it converted, or skip it
SdkNext(c) ==
    /\ IsSdk(c) /\ pc[c] = "reading"
    /\ pos[c] < Len(sdkWire[c])
    /\ LET r == SdkStreamChunk(kind[c], sdkWire[c][pos[c] + 1])
       IN  /\ pos' = [pos EXCEPT ![c] = @ + 1]
           /\ IF r.emit
              THEN /\ delivered' = [delivered EXCEPT ![c] = Append(@, r.chunk)]
                   /\ pc' = [pc EXCEPT ![c] = "suspended"]
              ELSE UNCHANGED <<delivered, pc>>
    /\ UNCHANGED <<mapVars, factoryVars, opVars, kind, wire, sdkWire, buffer, pending, readerHeld, releaseCalls,
                   transportCalls, outcome, err, reassembled>>

\* The iterator is exhausted: the stream has closed itself, the for await ends
SdkDone(c) ==
    /\ IsSdk(c) /\ pc[c] = "reading"
    /\ pos[c] = Len(sdkWire[c])
    /\ pc' = [pc EXCEPT ![c] = "done"]
    /\ outcome' = [outcome EXCEPT ![c] = "completed"]
    /\ readerHeld' = [readerHeld EXCEPT ![c] = FALSE]
    /\ UNCHANGED <<mapVars, factoryVars, opVars, kind, wire, sdkWire, pos, buffer, pending, delivered,
                   releaseCalls, transportCalls, err, reassembled>>

\* The iterator raises: the error leaves the generator as it is
SdkError(c) ==
    /\ IsSdk(c) /\ pc[c] = "reading"
    /\ Raise(c, SdkFailed)
    /\ readerHeld' = [readerHeld EXCEPT ![c] = FALSE]
    /\ UNCHANGED <<mapVars, factoryVars, opVars, kind, wire, sdkWire, pos, buffer, pending, delivered,
                   releaseCalls, transportCalls, reassembled>>

\* The consumer stops pulling and calls return() on the generator.  Suspended at a
\* yield, the generator leaves through its finally (gateway) or through the
\* for await, which calls return() on the iterator (SDK).  Not yet started, the
\* generator just completes: no statement of its body runs.
Cancel(c) ==
    /\ kind[c] # "none" /\ pc[c] \in {"start", "suspended"}
    /\ pc' = [pc EXCEPT ![c] = "done"]
    /\ outcome' = [outcome EXCEPT ![c] = "cancelled"]
    /\ IF pc[c] = "suspended" THEN ReleaseLock(c) ELSE UNCHANGED <<readerHeld, releaseCalls>>
    /\ UNCHANGED <<mapVars, factoryVars, opVars, kind, wire, sdkWire, pos, buffer, pending, delivered,
                   transportCalls, err, reassembled>>

\* ------------------------------------------------------------------ model mapping table

API_MODEL_MAPPINGS ==
    << [internal |-> "gpt-4o", api |-> "gpt-4o", provider |-> "openai"],
       [internal |-> "gpt-4o-mini", api |-> "gpt-4o-mini", provider |-> "openai"],
       [internal |-> "gpt-4-turbo", api |-> "gpt-4-turbo", provider |-> "openai"],
       [internal |-> "gpt-3.5-turbo", api |-> "gpt-3.5-turbo", provider |-> "openai"],
       [internal |-> "claude-opus-4-1", api |-> "claude-opus-4-1-20250805", provider |-> "anthropic"],
       [internal |-> "claude-opus-4-0", api |-> "claude-opus-4-20250514", provider |-> "anthropic"],
       [internal |-> "claude-sonnet-4-0", api |-> "claude-sonnet-4-20250514", provider |-> "anthropic"],
       [internal |-> "claude-3-7-sonnet-latest", api |-> "claude-3-7-sonnet-20250219", provider |-> "anthropic"],
       [internal |-> "claude-3-5-haiku-latest", api |-> "claude-3-5-haiku-20241022", provider |-> "anthropic"],
       [internal |-> "gemini-2.5-pro", api |-> "gemini-2.5-pro", provider |-> "google"],
       [internal |-> "gemini-1.5-pro", api |-> "gemini-1.5-pro", provider |-> "google"],
       [internal |-> "gemini-1.5-flash", api |-> "gemini-1.5-flash", provider |-> "google"],
       [internal |-> "gemini-pro", api |-> "gemini-pro", provider |-> "google"],
       [internal |-> "gemini-2.5-flash", api |-> "gemini-1.5-flash", provider |-> "google"],
       [internal |-> "gemini-2.5-flash-lite", api |-> "gemini-1.5-flash", provider |-> "google"] >>

NULL == "null"

\* Array.prototype.find over the table: the index of the first entry whose
\* internal (api) name is x, 0 when there is none
FindInternal(x) ==
    LET S == {i \in 1..Len(API_MODEL_MAPPINGS) : API_MODEL_MAPPINGS[i].internal = x}
    IN  IF S = {} THEN 0 ELSE CHOOSE i \in S : \A j \in S : i <= j

\* find from the end of the table: the last entry whose api name is x
FindApiLast(x) ==
    LET S == {i \in 1..Len(API_MODEL_MAPPINGS) : API_MODEL_MAPPINGS[i].api = x}
    IN  IF S = {} THEN 0 ELSE CHOOSE i \in S : \A j \in S : i >= j

FindApi(x) ==
    LET S == {i \in 1..Len(API_MODEL_MAPPINGS) : API_MODEL_MAPPINGS[i].api = x}
    IN  IF S = {} THEN 0 ELSE CHOOSE i \in S : \A j \in S : i <= j

\* mapToApiModel failing closed: no mapping gives null
mapToApiModelClosed(internalModel) ==
    LET i == FindInternal(internalModel)
    IN  IF i # 0 THEN API_MODEL_MAPPINGS[i].api ELSE NULL

mapToApiModel(internalModel) ==
    LET i == FindInternal(internalModel)
    IN  IF i # 0 THEN API_MODEL_MAPPINGS[i].api ELSE internalModel

\* mapFromApiModel taking the last entry with the api name
mapFromApiModelLast(apiModel) ==
    LET i == FindApiLast(apiModel)
    IN  IF i # 0 THEN API_MODEL_MAPPINGS[i].internal ELSE apiModel

mapFromApiModel(apiModel) ==
    LET i == FindApi(apiModel)
    IN  IF i # 0 THEN API_MODEL_MAPPINGS[i].internal ELSE apiModel

getModelProvider(modelName) ==
    LET i == FindInternal(modelName)
        j == IF i # 0 THEN i ELSE FindApi(modelName)
    IN  IF j # 0 THEN API_MODEL_MAPPINGS[j].provider ELSE NULL

getModelsForProvider(provider) ==
    SelectSeq(API_MODEL_MAPPINGS, LAMBDA m : m.provider = provider)

\* isModelSupported looking at internal names only
isModelSupportedInternal(modelName) ==
    \E i \in 1..Len(API_MODEL_MAPPINGS) : API_MODEL_MAPPINGS[i].internal = modelName

isModelSupported(modelName) ==
    \E i \in 1..Len(API_MODEL_MAPPINGS) :
        API_MODEL_MAPPINGS[i].internal = modelName \/ API_MODEL_MAPPINGS[i].api = modelName

\* The null validateModelWithSettings returns: messages are token sequences, and
\* the message of the function is never empty
NoMessage == <<>>

\* `Model '${model}' is not supported. Please select a supported model.` or null
validateModelWithSettings(model) ==
    IF ~isModelSupported(model) THEN <<"Model", model, "is not supported">> ELSE NoMessage

InternalIds == {API_MODEL_MAPPINGS[i].internal : i \in 1..Len(API_MODEL_MAPPINGS)}
ApiIds == {API_MODEL_MAPPINGS[i].api : i \in 1..Len(API_MODEL_MAPPINGS)}

\* Ids of no table entry: another name, the empty string, a name in another case,
\* a name with a suffix, a prefix of a name
UnregisteredIds == {"not-a-model", "", "GPT-4O", "gpt-4o-2024-08-06", "gemini", "vertex-ai"}

ModelInputs == InternalIds \cup ApiIds \cup UnregisteredIds

\* ------------------------------------------------------------------ lookups

StringLookups == {"mapToApiModel", "mapFromApiModel"}

\* The value the next lookup is applied to: the id, or the result of the last lookup
Current == IF trail = <<>> THEN mdl ELSE looked

CanLookUp ==
    /\ mdl # UNDEF
    /\ Len(trail) < MaxTrail
    /\ \A i \in 1..Len(trail) : trail[i] \in StringLookups

Applied(name, result) ==
    /\ trail' = Append(trail, name)
    /\ looked' = result
    /\ UNCHANGED <<mdl, streamVars, factoryVars, opVars>>

MapToApiModel ==
    /\ CanLookUp
    /\ Applied("mapToApiModel", mapToApiModel(Current))

MapFromApiModel ==
    /\ CanLookUp
    /\ Applied("mapFromApiModel", mapFromApiModel(Current))

GetModelProvider ==
    /\ CanLookUp
    /\ Applied("getModelProvider", getModelProvider(Current))

IsModelSupported ==
    /\ CanLookUp
    /\ Applied("isModelSupported", isModelSupported(Current))

ValidateModelWithSettings ==
    /\ CanLookUp
    /\ Applied("validateModelWithSettings", validateModelWithSettings(Current))

\* ------------------------------------------------------------------ factory

\* enum AuthType
LOGIN_WITH_GOOGLE == "oauth-personal"
USE_GEMINI == "gemini-api-key"
USE_VERTEX_AI == "vertex-ai"
CLOUD_SHELL == "cloud-shell"
USE_OPENAI == "openai-api-key"
USE_ANTHROPIC == "anthropic-api-key"
USE_API == "api"

AuthTypes == {LOGIN_WITH_GOOGLE, USE_GEMINI, USE_VERTEX_AI, CLOUD_SHELL, USE_OPENAI,
              USE_ANTHROPIC, USE_API}

\* The modes a caller may ask for: the enum, none, and a value outside the enum
RequestedAuthTypes == AuthTypes \cup {UNDEF, "bogus"}

\* The credentials read from process.env; a variable is in `present` when it is
\* set to a non-empty value.  The *_MODEL variables are taken as unset.
EnvNames == {"GEMINI_API_KEY", "GOOGLE_API_KEY", "GOOGLE_CLOUD_PROJECT", "GOOGLE_CLOUD_LOCATION",
             "OPENAI_API_KEY", "ANTHROPIC_API_KEY", "API_ENDPOINT", "API_AUTH_TOKEN"}

SelectedModels == {UNDEF, "gpt-4o-mini"}

\* x || d for a string or undefined x
OrDefault(x, d) == IF x = UNDEF \/ x = "" THEN d ELSE x

\* ContentGeneratorConfig; a credential field is TRUE when it holds a non-empty string
BaseConfig(at) ==
    [authType |-> at, apiKey |-> FALSE, vertexai |-> UNDEF,
     openaiApiKey |-> FALSE, openaiModel |-> UNDEF,
     anthropicApiKey |-> FALSE, anthropicModel |-> UNDEF,
     apiEndpoint |-> FALSE, apiAuthToken |-> FALSE, apiModel |-> UNDEF]

createContentGeneratorConfig(e, at) ==
    LET has(n) == n \in e.present
        base == BaseConfig(at)
    IN  IF at = LOGIN_WITH_GOOGLE \/ at = CLOUD_SHELL THEN base
        ELSE IF at = USE_GEMINI /\ has("GEMINI_API_KEY")
        THEN [base EXCEPT !.apiKey = TRUE, !.vertexai = "false"]
        ELSE IF at = USE_VERTEX_AI
                /\ (has("GOOGLE_API_KEY")
                    \/ (has("GOOGLE_CLOUD_PROJECT") /\ has("GOOGLE_CLOUD_LOCATION")))
        THEN [base EXCEPT !.apiKey = has("GOOGLE_API_KEY"), !.vertexai = "true"]
        ELSE IF at = USE_OPENAI /\ has("OPENAI_API_KEY")
        THEN [base EXCEPT !.openaiApiKey = TRUE,
                          !.openaiModel = OrDefault(e.selectedModel, "gpt-4o")]
        ELSE IF at = USE_ANTHROPIC /\ has("ANTHROPIC_API_KEY")
        THEN [base EXCEPT !.anthropicApiKey = TRUE,
                          !.anthropicModel = OrDefault(e.selectedModel, "claude-3-5-sonnet-20241022")]
        ELSE IF at = USE_API /\ has("API_ENDPOINT") /\ has("API_AUTH_TOKEN")
        THEN [base EXCEPT !.apiEndpoint = TRUE, !.apiAuthToken = TRUE,
                          !.apiModel = OrDefault(e.selectedModel, "gpt-4o")]
        ELSE base

NoGenerator == [wrapper |-> "none", inner |-> "none", model |-> "none"]

\* The adapter returned as it is, without the decorator
Unwrapped(inner, model) ==
    [wrapper |-> "none", inner |-> inner, model |-> model]

\* new LoggingContentGenerator(inner, gcConfig); model is what inner.getModel() gives
LoggingContentGenerator(inner, model) ==
    [wrapper |-> "LoggingContentGenerator", inner |-> inner, model |-> model]

\* !config.apiEndpoint && !config.apiAuthToken in place of ||
ApiCredentialsMissingBoth(cfg) == ~cfg.apiEndpoint /\ ~cfg.apiAuthToken

\* !config.apiEndpoint || !config.apiAuthToken
ApiCredentialsMissing(cfg) == ~cfg.apiEndpoint \/ ~cfg.apiAuthToken

Built(adapter, gen) == [constructed |-> <<adapter>>, generator |-> gen, error |-> <<>>]

Thrown(made, message) == [constructed |-> made, generator |-> NoGenerator, error |-> message]

\* createContentGenerator.  codeAssistOk: whether createCodeAssistContentGenerator,
\* which signs the user in, resolves; when it rejects, its error is the factory's.
createContentGenerator(cfg, codeAssistOk) ==
    IF cfg.authType = LOGIN_WITH_GOOGLE \/ cfg.authType = CLOUD_SHELL
    THEN IF codeAssistOk
         THEN Built("CodeAssistContentGenerator",
                    LoggingContentGenerator("CodeAssistContentGenerator", UNDEF))
         ELSE Thrown(<<"CodeAssistContentGenerator">>, <<"code assist setup failed">>)
    ELSE IF cfg.authType = USE_GEMINI \/ cfg.authType = USE_VERTEX_AI
    THEN LET modelName == IF cfg.vertexai = "true" THEN "vertex-ai" ELSE "gemini-2.5-pro"
         IN  Built("GoogleGenAIWrapper", LoggingContentGenerator("GoogleGenAIWrapper", modelName))
    ELSE IF cfg.authType = USE_OPENAI
    THEN IF ~cfg.openaiApiKey
         THEN Thrown(<<>>, <<"OpenAI API key is required for OpenAI authentication">>)
         ELSE Built("OpenAIContentGenerator",
                    LoggingContentGenerator("OpenAIContentGenerator",
                                            OrDefault(cfg.openaiModel, "gpt-4o")))
    ELSE IF cfg.authType = USE_ANTHROPIC
    THEN IF ~cfg.anthropicApiKey
         THEN Thrown(<<>>, <<"Anthropic API key is required for Anthropic authentication">>)
         ELSE Built("AnthropicContentGenerator",
                    LoggingContentGenerator("AnthropicContentGenerator",
                                            OrDefault(cfg.anthropicModel, "claude-3-5-sonnet-20241022")))
    ELSE IF cfg.authType = USE_API
    THEN IF ApiCredentialsMissing(cfg)
         THEN Thrown(<<>>, <<"API endpoint and auth token are required for API-based authentication">>)
         ELSE Built("ApiContentGenerator",
                    LoggingContentGenerator("ApiContentGenerator",
                                            OrDefault(cfg.apiModel, "gpt-4o")))
    ELSE Thrown(<<>>, <<"Error creating contentGenerator: Unsupported authType", cfg.authType>>)

\* The caller builds the config from the environment
CreateContentGeneratorConfig ==
    /\ fpc = "env"
    /\ config' = createContentGeneratorConfig(env, authType)
    /\ fpc' = "config"
    /\ UNCHANGED <<env, authType, constructed, generator, ferr, streamVars, mapVars, opVars>>

\* The caller creates the generator from the config
CreateContentGenerator ==
    /\ fpc = "config"
    /\ \E codeAssistOk \in BOOLEAN :
          LET r == createContentGenerator(config, codeAssistOk)
          IN  /\ constructed' = r.constructed
              /\ generator' = r.generator
              /\ ferr' = r.error
    /\ fpc' = "done"
    /\ UNCHANGED <<env, authType, config, streamVars, mapVars, opVars>>

\* Configs a caller can hand to createContentGenerator directly
DirectConfigs ==
    { [BaseConfig(at) EXCEPT !.apiKey = k, !.vertexai = v, !.openaiApiKey = o,
                             !.anthropicApiKey = a, !.apiEndpoint = e, !.apiAuthToken = t] :
        at \in RequestedAuthTypes, k \in BOOLEAN, v \in {UNDEF, "true", "false"},
        o \in BOOLEAN, a \in BOOLEAN, e \in BOOLEAN, t \in BOOLEAN }

\* ------------------------------------------------------------------ request contents

\* A text is a sequence of characters.  request.contents is a raw string, an array
\* of entries, or something else (shape "other": a single Content object, null);
\* an entry is a string or a Content {role, parts}, whose parts may be missing;
\* a part is {text}, whose text may be missing.
StringContents(t) == [shape |-> "string", text |-> t, entries |-> <<>>]
ArrayContents(es) == [shape |-> "array", text |-> <<>>, entries |-> es]
OtherContents == [shape |-> "other", text |-> <<>>, entries |-> <<>>]

StringEntry(t) == [isString |-> TRUE, text |-> t, role |-> UNDEF, hasParts |-> FALSE, parts |-> <<>>]
ContentEntry(r, ps) == [isString |-> FALSE, text |-> <<>>, role |-> r, hasParts |-> TRUE, parts |-> ps]
PartlessEntry(r) == [isString |-> FALSE, text |-> <<>>, role |-> r, hasParts |-> FALSE, parts |-> <<>>]

TextPart(t) == [hasText |-> TRUE, text |-> t]
EmptyPart == [hasText |-> FALSE, text |-> <<>>]

\* Array.prototype.join: the texts with sep between them
RECURSIVE Join(_, _)
Join(ts, sep) ==
    IF ts = <<>> THEN <<>>
    ELSE IF Len(ts) = 1 THEN Head(ts)
    ELSE Head(ts) \o sep \o Join(Tail(ts), sep)

SPACE == <<" ">>

\* content.parts?.map((part) => part.text).join(' ') || ''
\* (join writes a missing text as the empty string)
PartsText(entry) ==
    IF entry.hasParts
    THEN Join([i \in 1..Len(entry.parts) |->
                  IF entry.parts[i].hasText THEN entry.parts[i].text ELSE <<>>], SPACE)
    ELSE <<>>

EntryText(entry) == IF entry.isString THEN entry.text ELSE PartsText(entry)

\* ApiContentGenerator.convertContentsToMessage, and extractTextFromContents of
\* the three adapters
convertContentsToMessage(contents) ==
    IF contents.shape = "string" THEN contents.text
    ELSE IF contents.shape = "array"
    THEN Join([i \in 1..Len(contents.entries) |-> EntryText(contents.entries[i])], SPACE)
    ELSE <<>>

extractTextFromContents(contents) == convertContentsToMessage(contents)

\* convertGeminiMessages giving every entry the role user
convertGeminiMessagesAllUser(contents) ==
    IF contents.shape = "string" THEN << [role |-> "user", content |-> contents.text] >>
    ELSE IF contents.shape = "array"
    THEN [i \in 1..Len(contents.entries) |->
            [role |-> "user", content |-> EntryText(contents.entries[i])]]
    ELSE <<>>

\* convertGeminiMessagesToOpenAI / convertGeminiMessagesToAnthropic
convertGeminiMessages(contents) ==
    IF contents.shape = "string" THEN << [role |-> "user", content |-> contents.text] >>
    ELSE IF contents.shape = "array"
    THEN [i \in 1..Len(contents.entries) |->
            LET content == contents.entries[i]
            IN  IF content.isString THEN [role |-> "user", content |-> content.text]
                ELSE [role |-> IF content.role = "user" THEN "user" ELSE "assistant",
                      content |-> PartsText(content)]]
    ELSE <<>>

\* messages.map((msg) => msg.content).join(' ')
MessagesText(messages) == Join([i \in 1..Len(messages) |-> messages[i].content], SPACE)

\* Math.floor(n / 4) in place of Math.ceil(n / 4)
FloorQuarter(n) == n \div 4

\* Math.ceil(n / 4)
CeilQuarter(n) == (n + 3) \div 4

\* !text in place of !text.trim()
IsBlankUntrimmed(text) == text = <<>>

\* !text.trim()
IsBlank(text) == Trim(text) = <<>>

\* ------------------------------------------------------------------ single-shot operations

NoResult == [type |-> "none"]
NoRequest == [type |-> "none"]
NoResponse == [type |-> "none"]

OpTags(k) ==
    CASE k = "api" -> [generateContent |-> "API content generation error",
                       countTokens |-> "API token counting error",
                       embedContent |-> "API embedding error"]
      [] k = "openai" -> [generateContent |-> "OpenAI API error",
                          countTokens |-> "OpenAI token counting error",
                          embedContent |-> "OpenAI embedding error"]
      [] k = "anthropic" -> [generateContent |-> "Anthropic API error",
                             countTokens |-> "Anthropic token counting error",
                             embedContent |-> "Anthropic embedding error"]

OpReturns(result) ==
    /\ opPc' = "done"
    /\ opResult' = result
    /\ UNCHANGED opErr

OpRaises(message) ==
    /\ opPc' = "done"
    /\ opErr' = message
    /\ UNCHANGED opResult

\* The operation awaits its transport
OpAwaits ==
    /\ opPc' = "transport"
    /\ opCalls' = opCalls + 1
    /\ UNCHANGED <<opResult, opErr>>

\* { embeddings: [{ values: [] }] }
EmptyEmbedding == [type |-> "embeddings", embeddings |-> << [values |-> <<>>] >>]

\* embedContent up to its transport call.  The gateway and Anthropic have no
\* embeddings endpoint: they check the text and answer themselves; OpenAI calls
\* embeddings.create with the text; the native wrapper hands the request on.
EmbedContent ==
    /\ opPc = "call" /\ opName = "embedContent"
    /\ LET text == extractTextFromContents(opContents)
       IN  IF opKind \in {"api", "anthropic"}
           THEN /\ IF IsBlank(text)
                   THEN OpRaises(Tagged(OpTags(opKind).embedContent,
                                        <<"No content provided for embedding">>))
                   ELSE OpReturns(EmptyEmbedding)
                /\ UNCHANGED opCalls
           ELSE OpAwaits
    /\ UNCHANGED <<opKind, opName, opContents, opRequest, opResponse, streamVars, mapVars, factoryVars>>

\* Vectors an embeddings endpoint answers with; <<>> is an answer without data
EmbeddingAnswers == {<<>>, <<1, 2>>}

\* The embeddings transport returns or raises
EmbedTransport ==
    /\ opPc = "transport" /\ opName = "embedContent"
    /\ \/ \E v \in EmbeddingAnswers :
             \* openai: response.data[0]?.embedding || []; native: the response as it is
             OpReturns([type |-> "embeddings", embeddings |-> << [values |-> v] >>])
       \/ IF opKind = "openai"
          THEN OpRaises(Tagged(OpTags(opKind).embedContent, SdkFailed))
          ELSE OpRaises(SdkFailed)
    /\ UNCHANGED <<opKind, opName, opContents, opRequest, opResponse, opCalls, streamVars, mapVars, factoryVars>>

\* countTokens up to its transport call: an estimate on the gateway (from the
\* flattened text), on OpenAI and Anthropic (from the role messages); the native
\* wrapper hands the request on.
CountTokens ==
    /\ opPc = "call" /\ opName = "countTokens"
    /\ IF opKind = "api"
       THEN /\ OpReturns([type |-> "count",
                          totalTokens |-> CeilQuarter(Len(convertContentsToMessage(opContents)))])
            /\ UNCHANGED opCalls
       ELSE IF opKind \in {"openai", "anthropic"}
       THEN /\ OpReturns([type |-> "count",
                          totalTokens |->
                              CeilQuarter(Len(MessagesText(convertGeminiMessages(opContents))))])
            /\ UNCHANGED opCalls
       ELSE OpAwaits
    /\ UNCHANGED <<opKind, opName, opContents, opRequest, opResponse, streamVars, mapVars, factoryVars>>

TokenAnswers == {0, 7}

\* The native countTokens transport returns or raises
CountTransport ==
    /\ opPc = "transport" /\ opName = "countTokens"
    /\ \/ \E n \in TokenAnswers : OpReturns([type |-> "count", totalTokens |-> n])
       \/ OpRaises(SdkFailed)
    /\ UNCHANGED <<opKind, opName, opContents, opRequest, opResponse, opCalls, streamVars, mapVars, factoryVars>>

\* ------------------------------------------------------------------ generateContent

\* An optional number is <<>> when absent and <<n>> when present.
\* x || 0
OrZero(x) == IF x = <<>> THEN 0 ELSE x[1]

\* response.usage?.field: usage is <<>> when absent, else <<record>>
UsageField(usage, field) == IF usage = <<>> THEN <<>> ELSE usage[1][field]

\* geminiResponse with candidates and usageMetadata (<<>> when never assigned)
CanonicalResponse(text, reason, usage) ==
    [type |-> "response", candidates |-> GeminiResponse(text, reason).candidates,
     usageMetadata |-> usage]

UsageMetadata(prompt, candidates, total) ==
    << [promptTokenCount |-> prompt, candidatesTokenCount |-> candidates,
        totalTokenCount |-> total] >>

\* convertOpenAIResponseToGemini giving one candidate per native choice
convertOpenAIResponseAllChoices(response) ==
    [type |-> "response",
     candidates |-> [i \in 1..Len(response.choices) |->
                        GeminiResponse(OrEmpty(response.choices[i].content),
                            OpenAIConvertFinishReason(response.choices[i].finish_reason)).candidates[1]],
     usageMetadata |-> UsageMetadata(OrZero(UsageField(response.usage, "prompt_tokens")),
                                     OrZero(UsageField(response.usage, "completion_tokens")),
                                     OrZero(UsageField(response.usage, "total_tokens")))]

\* OpenAIContentGenerator.convertOpenAIResponseToGemini
convertOpenAIResponseToGemini(response) ==
    LET first == IF response.choices = <<>> THEN [content |-> UNDEF, finish_reason |-> UNDEF]
                 ELSE response.choices[1]
    IN  CanonicalResponse(OrEmpty(first.content), OpenAIConvertFinishReason(first.finish_reason),
            UsageMetadata(OrZero(UsageField(response.usage, "prompt_tokens")),
                          OrZero(UsageField(response.usage, "completion_tokens")),
                          OrZero(UsageField(response.usage, "total_tokens"))))

\* AnthropicContentGenerator.convertAnthropicResponseToGemini
\* (undefined + n is NaN, and NaN || 0 is 0)
convertAnthropicResponseToGemini(response) ==
    LET text == IF response.content = <<>> THEN UNDEF ELSE response.content[1].text
        input == UsageField(response.usage, "input_tokens")
        output == UsageField(response.usage, "output_tokens")
    IN  CanonicalResponse(OrEmpty(text), AnthropicConvertFinishReason(response.stop_reason),
            UsageMetadata(OrZero(input), OrZero(output),
                          IF input = <<>> \/ output = <<>> THEN 0 ELSE input[1] + output[1]))

\* ApiContentGenerator.convertApiResponseToGemini
\* (usageMetadata is assigned only under `if (response.metadata?.tokens_used)`)
convertApiResponseToGemini(response) ==
    LET tokens_used == UsageField(response.metadata, "tokens_used")
    IN  CanonicalResponse(response.message, STOP,
            IF OrZero(tokens_used) # 0
            THEN UsageMetadata(0, tokens_used[1], tokens_used[1])
            ELSE <<>>)

\* generateContent up to its transport call: the request is converted and handed
\* to the transport once
GenerateContent ==
    /\ opPc = "call" /\ opName = "generateContent"
    /\ opRequest' =
          IF opKind = "api"
          THEN [type |-> "message", message |-> convertContentsToMessage(opContents)]
          ELSE IF opKind \in {"openai", "anthropic"}
          THEN [type |-> "messages", messages |-> convertGeminiMessages(opContents)]
          ELSE [type |-> "contents", contents |-> opContents]
    /\ OpAwaits
    /\ UNCHANGED <<opKind, opName, opContents, opResponse, streamVars, mapVars, factoryVars>>

\* Native responses the transports answer with
Counters == {<<>>, <<0>>, <<3>>}

OpenAIResponses ==
    { [choices |-> cs, usage |-> u] :
        cs \in {c.choices : c \in OpenAIChunks}
                 \cup { << [content |-> "a", finish_reason |-> r] >> :
                            r \in {"stop", "content_filter", "tool_calls"} },
        u \in {<<>>, << [prompt_tokens |-> <<3>>, completion_tokens |-> <<4>>, total_tokens |-> <<7>>] >>,
               << [prompt_tokens |-> <<3>>, completion_tokens |-> <<>>, total_tokens |-> <<>>] >>} }

AnthropicResponses ==
    { [content |-> ct, stop_reason |-> r, usage |-> u] :
        ct \in {<<>>, << [text |-> "a"], [text |-> "b"] >>, << [text |-> UNDEF] >>},
        r \in {"end_turn", "max_tokens", "stop_sequence", "tool_use", UNDEF},
        u \in {<<>>} \cup { << [input_tokens |-> i, output_tokens |-> o] >> :
                               i \in Counters, o \in {<<>>, <<4>>} } }

ApiResponses ==
    { [message |-> msg, metadata |-> md] :
        msg \in {"", "a"},
        md \in {<<>>} \cup { << [tokens_used |-> t] >> : t \in Counters } }

\* Responses of the native client, which the wrapper returns as they are
NativeResponses ==
    {CanonicalResponse("a", STOP, <<>>), CanonicalResponse("a", MAX_TOKENS, UsageMetadata(3, 4, 7))}

\* Messages of the errors makeApiRequest raises: fetch rejects, the status is
\* not ok, response.json() rejects
ApiRequestErrors == {FetchFailed, <<"API request failed: 500">>, <<"Unexpected token">>}

NativeAnswers(k) ==
    CASE k = "api" -> ApiResponses
      [] k = "openai" -> OpenAIResponses
      [] k = "anthropic" -> AnthropicResponses
      [] OTHER -> NativeResponses

TransportFailures(k) == IF k = "api" THEN ApiRequestErrors ELSE {SdkFailed}

\* generateContent retrying once: the first failure of the transport sends the
\* operation back to its call
GenerateTransportRetrying ==
    /\ opPc = "transport" /\ opName = "generateContent"
    /\ \/ \E r \in NativeAnswers(opKind) :
             /\ opResponse' = r
             /\ OpReturns(CASE opKind = "api" -> convertApiResponseToGemini(r)
                            [] opKind = "openai" -> convertOpenAIResponseToGemini(r)
                            [] opKind = "anthropic" -> convertAnthropicResponseToGemini(r)
                            [] OTHER -> r)
       \/ \E e \in TransportFailures(opKind) :
             /\ UNCHANGED opResponse
             /\ IF opCalls < 2
                THEN opPc' = "call" /\ UNCHANGED <<opResult, opErr>>
                ELSE OpRaises(IF opKind = "native" THEN e
                              ELSE Tagged(OpTags(opKind).generateContent, e))
    /\ UNCHANGED <<opKind, opName, opContents, opRequest, opCalls, streamVars, mapVars, factoryVars>>

\* The transport of generateContent returns or raises, and the operation
\* converts the response or tags the error
GenerateTransport ==
    /\ opPc = "transport" /\ opName = "generateContent"
    /\ \/ \E r \in NativeAnswers(opKind) :
             /\ opResponse' = r
             /\ OpReturns(CASE opKind = "api" -> convertApiResponseToGemini(r)
                            [] opKind = "openai" -> convertOpenAIResponseToGemini(r)
                            [] opKind = "anthropic" -> convertAnthropicResponseToGemini(r)
                            [] OTHER -> r)
       \/ \E e \in TransportFailures(opKind) :
             /\ UNCHANGED opResponse
             /\ OpRaises(IF opKind = "native" THEN e
                         ELSE Tagged(OpTags(opKind).generateContent, e))
    /\ UNCHANGED <<opKind, opName, opContents, opRequest, opCalls, streamVars, mapVars, factoryVars>>

\* ------------------------------------------------------------------ contents the model draws from

Texts == {<<>>, <<" ">>, <<"a">>, <<"a", " ", "b", "c", "d">>}

PartsLists ==
    { <<>>, <<TextPart(<<"a">>)>>, <<TextPart(<<" ">>)>>,
      <<TextPart(<<"a">>), TextPart(<<"b", "c">>)>>, <<TextPart(<<>>), EmptyPart>> }

Entries ==
    {StringEntry(t) : t \in {<<>>, <<"a">>}}
        \cup {ContentEntry(r, ps) : r \in {"user", "model"}, ps \in PartsLists}
        \cup {PartlessEntry("user")}

ContentsSet ==
    {StringContents(t) : t \in Texts}
        \cup {ArrayContents(es) : es \in SeqsUpTo(Entries, MaxEntries)}
        \cup {OtherContents}

\* ------------------------------------------------------------------ parts at rest

NoStreams ==
    /\ kind = [c \in CallIds |-> "none"]
    /\ pc = [c \in CallIds |-> "idle"]
    /\ wire = [c \in CallIds |-> <<>>]
    /\ sdkWire = [c \in CallIds |-> <<>>]
    /\ pos = [c \in CallIds |-> 0]
    /\ buffer = [c \in CallIds |-> <<>>]
    /\ pending = [c \in CallIds |-> <<>>]
    /\ delivered = [c \in CallIds |-> <<>>]
    /\ readerHeld = [c \in CallIds |-> FALSE]
    /\ releaseCalls = [c \in CallIds |-> 0]
    /\ transportCalls = [c \in CallIds |-> 0]
    /\ outcome = [c \in CallIds |-> "none"]
    /\ err = [c \in CallIds |-> <<>>]
    /\ reassembled = [c \in CallIds |-> FALSE]

NoLookups ==
    /\ mdl = UNDEF
    /\ trail = <<>>
    /\ looked = UNDEF

NoFactory ==
    /\ env = [present |-> {}, selectedModel |-> UNDEF]
    /\ authType = UNDEF
    /\ config = BaseConfig(UNDEF)
    /\ fpc = "idle"
    /\ constructed = <<>>
    /\ generator = NoGenerator
    /\ ferr = <<>>

NoOps ==
    /\ opKind = "none"
    /\ opName = UNDEF
    /\ opContents = OtherContents
    /\ opRequest = NoRequest
    /\ opResponse = NoResponse
    /\ opPc = "idle"
    /\ opCalls = 0
    /\ opResult = NoResult
    /\ opErr = <<>>

\* ------------------------------------------------------------------ specification: one streaming call

Init ==
    /\ \E k \in {"api", "openai", "anthropic"} :
          /\ kind = [c \in CallIds |-> IF c = "c1" THEN k ELSE "none"]
          /\ \E w \in (IF k = "api" THEN ApiWires ELSE {<<>>}) :
                wire = [c \in CallIds |-> IF c = "c1" THEN w ELSE <<>>]
          /\ \E s \in SdkWires(k) :
                sdkWire = [c \in CallIds |-> IF c = "c1" THEN s ELSE <<>>]
    /\ pc = [c \in CallIds |-> "idle"]
    /\ pos = [c \in CallIds |-> 0]
    /\ buffer = [c \in CallIds |-> <<>>]
    /\ pending = [c \in CallIds |-> <<>>]
    /\ delivered = [c \in CallIds |-> <<>>]
    /\ readerHeld = [c \in CallIds |-> FALSE]
    /\ releaseCalls = [c \in CallIds |-> 0]
    /\ transportCalls = [c \in CallIds |-> 0]
    /\ outcome = [c \in CallIds |-> "none"]
    /\ err = [c \in CallIds |-> <<>>]
    /\ reassembled = [c \in CallIds |-> FALSE]
    /\ NoLookups /\ NoFactory /\ NoOps

StreamStep(c) ==
    \/ ApiGenerateContentStream(c)
    \/ SdkGenerateContentStream(c)
    \/ ApiPull(c)
    \/ ApiFetch(c)
    \/ ApiReadBlock(c)
    \/ ApiReadDone(c)
    \/ ApiReadError(c)
    \/ SdkPull(c)
    \/ SdkNext(c)
    \/ SdkDone(c)
    \/ SdkError(c)
    \/ Cancel(c)

Next == \E c \in CallIds : StreamStep(c)

Spec == Init /\ [][Next]_vars

\* ------------------------------------------------------------------ reading a transport text as a whole

\* The newline-terminated lines of w, in order (cur = the line being scanned)
RECURSIVE TerminatedLines(_, _)
TerminatedLines(w, cur) ==
    IF w = <<>> THEN <<>>
    ELSE IF Head(w) = NL THEN <<cur>> \o TerminatedLines(Tail(w), <<>>)
    ELSE TerminatedLines(Tail(w), Append(cur, Head(w)))

Terminated(w) == w = <<>> \/ Last(w) = NL

\* The chunks of the lines ls, each line taken on its own
RECURSIVE LineChunks(_)
LineChunks(ls) ==
    IF ls = <<>> THEN <<>>
    ELSE LET r == ProcessLine(Head(ls))
         IN  (IF r.emit THEN <<r.chunk>> ELSE <<>>) \o LineChunks(Tail(ls))

\* What the text w gives when it is read in one piece
BatchChunks(w) == LineChunks(TerminatedLines(w, <<>>))

IsPrefix(s, t) == Len(s) <= Len(t) /\ SubSeq(t, 1, Len(s)) = s

ApiCalls == {c \in CallIds : kind[c] = "api"}

\* ------------------------------------------------------------------ C1

\* The chunk a well-formed frame with non-empty text stands for
GoodChunk(l) ==
    IF l = GoodLineA THEN GeminiResponse("a", FINISH_REASON_UNSPECIFIED)
    ELSE GeminiResponse("b", STOP)

\* w is N well-formed frames, one malformed line, M well-formed frames, at index i
FramesAroundMalformed(w, i) ==
    LET ls == TerminatedLines(w, <<>>)
    IN  /\ Terminated(w)
        /\ i \in 1..Len(ls)
        /\ ls[i] = MalformedLine
        /\ \A j \in 1..Len(ls) : j # i => ls[j] \in GoodLines

\* The chunks of the frames of w other than line i, in order
ChunksAround(w, i) ==
    LET ls == TerminatedLines(w, <<>>)
        at(j) == IF j < i THEN j ELSE j + 1
    IN  [j \in 1..(Len(ls) - 1) |-> GoodChunk(ls[at(j)])]

\* Errors only a transport raises
TransportErrors ==
    {FetchFailed, ReadFailed, SdkFailed, <<"API stream request failed", "500">>,
     <<"No response body reader available">>}

\* C1: a gateway transport of N well-formed frames, one malformed line and M more
\* well-formed frames delivers the N+M chunks of the frames in their order: the
\* consumer never holds anything but a prefix of them, holds all of them when the
\* sequence completes, and the malformed line raises nothing (the only errors are
\* the transport's own) and does not end the sequence (it completes only with the
\* whole text read).
C1_MalformedLineDropped ==
    \A c \in ApiCalls : \A i \in 1..Len(wire[c]) :
        FramesAroundMalformed(wire[c], i) =>
            /\ IsPrefix(delivered[c], ChunksAround(wire[c], i))
            /\ outcome[c] = "completed" =>
                  /\ delivered[c] = ChunksAround(wire[c], i)
                  /\ pos[c] = Len(wire[c])
            /\ outcome[c] = "error" => err[c] \in TransportErrors

C1_Witness ==
    /\ kind["c1"] = "api"
    /\ wire["c1"] = JoinLines(<<GoodLineA, MalformedLine, GoodLineB>>, FALSE)
    /\ outcome["c1"] = "completed"
    /\ Len(delivered["c1"]) = 2

\* ------------------------------------------------------------------ C2

\* The chunks the transport of call c holds
RECURSIVE SdkChunks(_, _)
SdkChunks(k, s) ==
    IF s = <<>> THEN <<>>
    ELSE LET r == SdkStreamChunk(k, Head(s))
         IN  (IF r.emit THEN <<r.chunk>> ELSE <<>>) \o SdkChunks(k, Tail(s))

TransportChunks(c) ==
    IF kind[c] = "api" THEN BatchChunks(wire[c]) ELSE SdkChunks(kind[c], sdkWire[c])

\* C2: once the consumer has cancelled the sequence after k < N chunks, the
\* transport's read handle is not held any more.
C2_CancelReleasesHandle ==
    \A c \in CallIds :
        (outcome[c] = "cancelled" /\ Len(delivered[c]) < Len(TransportChunks(c)))
            => ~readerHeld[c]

\* What does hold of a cancel: made at a yield (after one chunk or more) it has
\* invoked the release exactly once and left the handle free, on every adapter;
\* made before the first pull it has invoked no release, and on the gateway no
\* transport call either.
CancelAtYieldReleases ==
    \A c \in CallIds :
        outcome[c] = "cancelled" =>
            /\ delivered[c] # <<>> => releaseCalls[c] = 1 /\ ~readerHeld[c]
            /\ delivered[c] = <<>> => releaseCalls[c] = 0
            /\ (delivered[c] = <<>> /\ kind[c] = "api") => transportCalls[c] = 0 /\ ~readerHeld[c]

\* A cancelled or otherwise ended sequence delivers nothing more
NothingAfterEnd ==
    [][\A c \in CallIds : pc[c] = "done" => delivered'[c] = delivered[c]]_vars

\* ------------------------------------------------------------------ C3

\* C3: in the gateway normalizer the reader is held only while the sequence is
\* live: every end (completion, a read error, a cancel at a yield) has released
\* it, exactly once when it had been acquired, and the sequence completes only
\* when the transport has delivered its whole text and signalled done.
C3_ReaderReleasedAtEnd ==
    \A c \in ApiCalls :
        /\ pc[c] = "done" => ~readerHeld[c]
        /\ readerHeld[c] => pc[c] \in {"reading", "suspended"} /\ releaseCalls[c] = 0
        /\ releaseCalls[c] <= 1
        /\ outcome[c] = "completed" => pos[c] = Len(wire[c]) /\ releaseCalls[c] = 1
        /\ (outcome[c] = "error" /\ err[c] = ReadFailed) => releaseCalls[c] = 1
        /\ pc[c] \in {"reading", "suspended"} => readerHeld[c]

C3_Witness ==
    /\ kind["c1"] = "api"
    /\ outcome["c1"] = "error"
    /\ err["c1"] = ReadFailed
    /\ delivered["c1"] # <<>>
    /\ releaseCalls["c1"] = 1
    /\ ~readerHeld["c1"]

\* ------------------------------------------------------------------ C4

\* C4: what the gateway normalizer delivers is what the text received so far gives
\* when read in one piece, however the transport cut it into blocks: a prefix of
\* it at every moment, all of it whenever the normalizer waits for the next block,
\* and at completion the chunks of the whole text.
C4_BlockSplitIrrelevant ==
    \A c \in ApiCalls :
        /\ IsPrefix(delivered[c], BatchChunks(SubSeq(wire[c], 1, pos[c])))
        /\ pc[c] = "reading" => delivered[c] = BatchChunks(SubSeq(wire[c], 1, pos[c]))
        /\ outcome[c] = "completed" => delivered[c] = BatchChunks(wire[c])

C4_Witness ==
    /\ kind["c1"] = "api"
    /\ outcome["c1"] = "completed"
    /\ reassembled["c1"]
    /\ Len(delivered["c1"]) >= 2

\* ------------------------------------------------------------------ C5

\* The tags an adapter's catch blocks put in front of the underlying message
AdapterTags(k) ==
    CASE k = "api" -> {"API content generation error", "API content streaming error",
                       "API token counting error", "API embedding error"}
      [] k = "openai" -> {"OpenAI API error", "OpenAI token counting error",
                          "OpenAI embedding error"}
      [] k = "anthropic" -> {"Anthropic API error", "Anthropic token counting error",
                             "Anthropic embedding error"}
      [] OTHER -> {}

IsTagged(k, message) == Len(message) >= 2 /\ message[1] \in AdapterTags(k)

\* C5: every error that reaches the caller of generateStream, while the call is
\* made or while the sequence is pulled, carries the adapter's tag in front of
\* the underlying message.
C5_StreamErrorsTagged ==
    \A c \in CallIds : outcome[c] = "error" => IsTagged(kind[c], err[c])

\* ------------------------------------------------------------------ specification: lookups in the mapping table

MapInit ==
    /\ mdl \in ModelInputs
    /\ trail = <<>>
    /\ looked = UNDEF
    /\ NoStreams /\ NoFactory /\ NoOps

MapNext ==
    \/ MapToApiModel
    \/ MapFromApiModel
    \/ GetModelProvider
    \/ IsModelSupported
    \/ ValidateModelWithSettings

MapSpec == MapInit /\ [][MapNext]_vars

\* ------------------------------------------------------------------ C9

\* The entries the table marks as legacy
LegacyAliases == {"gemini-2.5-flash", "gemini-2.5-flash-lite"}

\* The internal id of the first table entry whose wire id is that of entry m
FirstSharing(m) ==
    LET wireOf == (CHOOSE e \in {API_MODEL_MAPPINGS[i] : i \in 1..Len(API_MODEL_MAPPINGS)} :
                        e.internal = m).api
        first == CHOOSE i \in 1..Len(API_MODEL_MAPPINGS) :
                    /\ API_MODEL_MAPPINGS[i].api = wireOf
                    /\ \A j \in 1..(i - 1) : API_MODEL_MAPPINGS[j].api # wireOf
    IN  API_MODEL_MAPPINGS[first].internal

\* C9: mapFromApiModel(mapToApiModel(m)) is m for every registered internal id m
\* that is no legacy alias; the two legacy aliases give the internal id of the
\* first entry with their wire id, which is another id (gemini-1.5-flash).
C9_RoundTrip ==
    (mdl \in InternalIds /\ trail = <<"mapToApiModel", "mapFromApiModel">>) =>
        /\ mdl \notin LegacyAliases => looked = mdl
        /\ mdl \in LegacyAliases =>
              looked = FirstSharing(mdl) /\ looked = "gemini-1.5-flash" /\ looked # mdl

C9_Witness ==
    /\ mdl = "gemini-2.5-flash-lite"
    /\ trail = <<"mapToApiModel", "mapFromApiModel">>
    /\ looked = "gemini-1.5-flash"

\* ------------------------------------------------------------------ C10

\* C10: for an id that is neither an internal nor a wire id of the table,
\* mapToApiModel and mapFromApiModel return the id itself and getModelProvider
\* returns null; every lookup returns a value.
C10_FailOpen ==
    (mdl \notin InternalIds \cup ApiIds /\ Len(trail) = 1) =>
        /\ trail[1] = "mapToApiModel" => looked = mdl
        /\ trail[1] = "mapFromApiModel" => looked = mdl
        /\ trail[1] = "getModelProvider" => looked = NULL

C10_Witness ==
    /\ mdl = "not-a-model"
    /\ trail = <<"mapToApiModel">>
    /\ looked = "not-a-model"

\* ------------------------------------------------------------------ specification: the factory

FactoryInit ==
    /\ \/ /\ fpc = "env"
          /\ env \in [present : SUBSET EnvNames, selectedModel : SelectedModels]
          /\ authType \in RequestedAuthTypes
          /\ config = BaseConfig(UNDEF)
       \/ /\ fpc = "config"
          /\ env = [present |-> {}, selectedModel |-> UNDEF]
          /\ config \in DirectConfigs
          /\ authType = config.authType
    /\ constructed = <<>>
    /\ generator = NoGenerator
    /\ ferr = <<>>
    /\ NoStreams /\ NoLookups /\ NoOps

FactoryNext ==
    \/ CreateContentGeneratorConfig
    \/ CreateContentGenerator

FactorySpec == FactoryInit /\ [][FactoryNext]_vars

\* ------------------------------------------------------------------ C6, C7

\* The adapter type fixed for a mode
AdapterOf(at) ==
    CASE at \in {LOGIN_WITH_GOOGLE, CLOUD_SHELL} -> "CodeAssistContentGenerator"
      [] at \in {USE_GEMINI, USE_VERTEX_AI} -> "GoogleGenAIWrapper"
      [] at = USE_OPENAI -> "OpenAIContentGenerator"
      [] at = USE_ANTHROPIC -> "AnthropicContentGenerator"
      [] at = USE_API -> "ApiContentGenerator"
      [] OTHER -> "none"

\* The credential (or endpoint) the mode needs is in neither the config nor, for
\* vertex-ai, the project and location of the environment
CredentialMissing ==
    CASE authType = USE_GEMINI -> ~config.apiKey
      [] authType = USE_VERTEX_AI ->
            ~config.apiKey
            /\ ~({"GOOGLE_CLOUD_PROJECT", "GOOGLE_CLOUD_LOCATION"} \subseteq env.present)
      [] authType = USE_OPENAI -> ~config.openaiApiKey
      [] authType = USE_ANTHROPIC -> ~config.anthropicApiKey
      [] authType = USE_API -> ~config.apiEndpoint \/ ~config.apiAuthToken
      [] OTHER -> FALSE

Raised == ferr # <<>> /\ generator = NoGenerator

C7_OneAdapterPerMode ==
    fpc = "done" =>
        /\ Len(constructed) <= 1
        /\ generator # NoGenerator =>
              /\ generator.wrapper = "LoggingContentGenerator"
              /\ generator.inner = AdapterOf(authType)
              /\ constructed = <<AdapterOf(authType)>>
        /\ (authType \in AuthTypes /\ ~CredentialMissing) =>
              /\ constructed = <<AdapterOf(authType)>>
              /\ authType \notin {LOGIN_WITH_GOOGLE, CLOUD_SHELL} => generator # NoGenerator

C7_Witness ==
    /\ fpc = "done"
    /\ authType = USE_ANTHROPIC
    /\ "OPENAI_API_KEY" \in env.present
    /\ generator = LoggingContentGenerator("AnthropicContentGenerator", "gpt-4o-mini")

\* ------------------------------------------------------------------ specification: one single-shot operation

OpInit ==
    /\ opKind \in {"api", "openai", "anthropic", "native"}
    /\ opName \in {"generateContent", "embedContent", "countTokens"}
    /\ opContents \in ContentsSet
    /\ opRequest = NoRequest
    /\ opResponse = NoResponse
    /\ opPc = "call"
    /\ opCalls = 0
    /\ opResult = NoResult
    /\ opErr = <<>>
    /\ NoStreams /\ NoLookups /\ NoFactory

OpNext ==
    \/ GenerateContent
    \/ GenerateTransport
    \/ EmbedContent
    \/ EmbedTransport
    \/ CountTokens
    \/ CountTransport

OpSpec == OpInit /\ [][OpNext]_vars

\* ------------------------------------------------------------------ C8

\* The flattened text of the request has no character but spaces
BlankRequest ==
    LET text == convertContentsToMessage(opContents)
    IN  \A i \in 1..Len(text) : text[i] = " "

Contains(message, part) == \E i \in 1..Len(message) : message[i] = part

\* C8 as stated: on every adapter an embed request with blank text makes no
\* transport call and ends in the error 'No content provided for embedding'.
C8_BlankEmbedRejectedEverywhere ==
    (opName = "embedContent" /\ BlankRequest) =>
        /\ opCalls = 0
        /\ opPc = "done" => Contains(opErr, "No content provided for embedding")

\* C8 as it holds: on the adapters without an embeddings endpoint (gateway,
\* Anthropic) an embed request with blank text makes no transport call and ends
\* in the adapter's embedding error carrying 'No content provided for embedding',
\* and one with other text returns exactly one embedding with an empty vector,
\* again without a transport call.
C8_BlankEmbedRejected ==
    (opName = "embedContent" /\ opKind \in {"api", "anthropic"}) =>
        /\ opCalls = 0
        /\ opPc = "done" =>
              IF BlankRequest
              THEN /\ opErr = <<OpTags(opKind).embedContent, "No content provided for embedding">>
                   /\ opResult = NoResult
              ELSE /\ opErr = <<>>
                   /\ opResult.type = "embeddings"
                   /\ Len(opResult.embeddings) = 1
                   /\ opResult.embeddings[1].values = <<>>

C8_Witness ==
    /\ opName = "embedContent" /\ opKind = "api"
    /\ opContents = ArrayContents(<<ContentEntry("user", <<TextPart(<<" ">>)>>), StringEntry(<<>>)>>)
    /\ opPc = "done"
    /\ opErr = <<"API embedding error", "No content provided for embedding">>

\* ------------------------------------------------------------------ C11

Registered == InternalIds \cup ApiIds

\* The provider of the first entry with internal id x, and only when there is
\* none the provider of the first entry with wire id x
ProviderByPrecedence(x) ==
    LET byInternal == {i \in 1..Len(API_MODEL_MAPPINGS) : API_MODEL_MAPPINGS[i].internal = x}
        byApi == {i \in 1..Len(API_MODEL_MAPPINGS) : API_MODEL_MAPPINGS[i].api = x}
        first(S) == CHOOSE i \in S : \A j \in S : i <= j
    IN  IF byInternal # {} THEN API_MODEL_MAPPINGS[first(byInternal)].provider
        ELSE IF byApi # {} THEN API_MODEL_MAPPINGS[first(byApi)].provider
        ELSE NULL

\* C11: isModelSupported(id) is true exactly when id is the internal or the wire
\* id of a table entry, which is exactly when getModelProvider(id) is not null;
\* getModelProvider returns the provider of the first entry matching by internal
\* id, else of the first matching by wire id; validateModelWithSettings returns
\* its message exactly when the id is not supported.
C11_SupportedIffProvider ==
    Len(trail) = 1 =>
        /\ trail[1] = "isModelSupported" =>
              /\ looked = (mdl \in Registered)
              /\ looked = (getModelProvider(mdl) # NULL)
        /\ trail[1] = "getModelProvider" =>
              /\ looked = ProviderByPrecedence(mdl)
              /\ (looked # NULL) = isModelSupported(mdl)
        /\ trail[1] = "validateModelWithSettings" =>
              /\ (looked # NoMessage) = (mdl \notin Registered)
              /\ (looked # NoMessage) = ~isModelSupported(mdl)
              /\ looked # NoMessage => looked = <<"Model", mdl, "is not supported">>

\* A wire id that is no internal id is supported
C11_Witness ==
    /\ mdl = "claude-opus-4-1-20250805"
    /\ trail = <<"isModelSupported">>
    /\ looked = TRUE

\* ------------------------------------------------------------------ C12

Estimators == {"api", "openai", "anthropic"}

\* ceil(n / 4): the least number of groups of four characters that hold n characters
CeilOfQuarter(n) == CHOOSE q \in 0..n : 4 * q >= n /\ \A r \in 0..n : 4 * r >= n => q <= r

\* C12: on the gateway, OpenAI and Anthropic adapters countTokens returns
\* ceil(len(text) / 4), text being the flattened text of the contents (0 for the
\* shape that is neither a string nor a sequence), without raising; and no
\* shorter text has a larger estimate.
C12_CountTokensEstimate ==
    (opName = "countTokens" /\ opKind \in Estimators /\ opPc = "done") =>
        LET text == convertContentsToMessage(opContents)
        IN  /\ opErr = <<>>
            /\ opResult.type = "count"
            /\ opResult.totalTokens = CeilOfQuarter(Len(text))
            /\ opContents.shape = "other" => opResult.totalTokens = 0
            /\ \A n \in 0..Len(text) : CeilQuarter(n) <= opResult.totalTokens

\* "a bc a" from a model entry with two parts and a string entry: 6 characters, 2 tokens
C12_Witness ==
    /\ opName = "countTokens" /\ opKind = "openai" /\ opPc = "done"
    /\ opContents = ArrayContents(<<ContentEntry("model", <<TextPart(<<"a">>), TextPart(<<"b", "c">>)>>),
                                    StringEntry(<<"a">>)>>)
    /\ opResult = [type |-> "count", totalTokens |-> 2]

\* ------------------------------------------------------------------ specification: one call of any operation

AdapterInit == Init \/ OpInit

AdapterNext == Next \/ OpNext

AdapterSpec == AdapterInit /\ [][AdapterNext]_vars

\* ------------------------------------------------------------------ C13

\* r has exactly one candidate, of role 'model', with exactly one part, a text
OneCandidate(r) ==
    /\ Len(r.candidates) = 1
    /\ r.candidates[1].content.role = "model"
    /\ Len(r.candidates[1].content.parts) = 1
    /\ DOMAIN r.candidates[1].content.parts[1] = {"text"}
    /\ r.candidates[1].content.parts[1].text # UNDEF

Returned == opPc = "done" /\ opErr = <<>>

\* C13: every response generateContent returns on the gateway, OpenAI and
\* Anthropic adapters, and every chunk a stream of theirs delivers, has exactly
\* one candidate whose role is 'model' and whose parts are one text part, also
\* when the native response has no or several choices / content blocks.
C13_OneCandidate ==
    /\ (opName = "generateContent" /\ opKind \in Estimators /\ Returned) =>
          OneCandidate(opResult)
    /\ \A c \in CallIds : \A i \in 1..Len(delivered[c]) : OneCandidate(delivered[c][i])

\* The response with two choices gives the candidate of the first one
C13_Witness ==
    /\ opName = "generateContent" /\ opKind = "openai" /\ Returned
    /\ Len(opResult.candidates) = 1
    /\ opResult.candidates[1].content.parts = << [text |-> "b"] >>
    /\ opResult.candidates[1].finishReason = MAX_TOKENS

\* The response without choices gives one candidate with the empty text
C13_WitnessNoChoices ==
    /\ opName = "generateContent" /\ opKind = "openai" /\ Returned
    /\ opResult.candidates[1].content.parts = << [text |-> ""] >>
    /\ opResult.candidates[1].finishReason = FINISH_REASON_UNSPECIFIED

\* ------------------------------------------------------------------ C14

FinishReasons == {STOP, MAX_TOKENS, SAFETY, FINISH_REASON_UNSPECIFIED}

\* The fixed tables: native reason -> canonical reason
OpenAIReasonTable == [stop |-> STOP, length |-> MAX_TOKENS, content_filter |-> SAFETY]
AnthropicReasonTable == [end_turn |-> STOP, stop_sequence |-> STOP, max_tokens |-> MAX_TOKENS]

ByTable(table, native) ==
    IF native \in DOMAIN table THEN table[native] ELSE FINISH_REASON_UNSPECIFIED

\* The native finish reason of the response generateContent converted
NativeReason ==
    CASE opKind = "openai" ->
            IF opResponse.choices = <<>> THEN UNDEF ELSE opResponse.choices[1].finish_reason
      [] opKind = "anthropic" -> opResponse.stop_reason
      [] OTHER -> UNDEF

\* C14: the finish reason of a returned response is one of the four canonical
\* values: on OpenAI stop -> STOP, length -> MAX_TOKENS, content_filter -> SAFETY;
\* on Anthropic end_turn, stop_sequence -> STOP, max_tokens -> MAX_TOKENS; every
\* other native value, an absent one included, -> UNSPECIFIED; on the gateway
\* always STOP.
C14_FinishReasonMapping ==
    (opName = "generateContent" /\ opKind \in Estimators /\ Returned) =>
        LET reason == opResult.candidates[1].finishReason
        IN  /\ reason \in FinishReasons
            /\ opKind = "openai" => reason = ByTable(OpenAIReasonTable, NativeReason)
            /\ opKind = "anthropic" => reason = ByTable(AnthropicReasonTable, NativeReason)
            /\ opKind = "api" => reason = STOP

C14_Witness ==
    /\ opName = "generateContent" /\ opKind = "anthropic" /\ Returned
    /\ opResponse.stop_reason = "stop_sequence"
    /\ opResult.candidates[1].finishReason = STOP

\* A native value outside the table gives UNSPECIFIED
C14_WitnessUnknown ==
    /\ opName = "generateContent" /\ opKind = "openai" /\ Returned
    /\ NativeReason = "tool_calls"
    /\ opResult.candidates[1].finishReason = FINISH_REASON_UNSPECIFIED

\* ------------------------------------------------------------------ C15

ReasonOf(chunk) == chunk.candidates[1].finishReason

\* C15 as stated: a finish reason other than UNSPECIFIED is carried by the
\* terminal chunk only: whatever has been delivered, every chunk but the last
\* carries UNSPECIFIED.
C15_FinishReasonOnlyOnTerminal ==
    \A c \in CallIds : \A i \in 1..(Len(delivered[c]) - 1) :
        ReasonOf(delivered[c][i]) = FINISH_REASON_UNSPECIFIED

\* The chunks of the well-formed frames among the terminated lines of w
RECURSIVE FrameChunks(_)
FrameChunks(ls) ==
    IF ls = <<>> THEN <<>>
    ELSE (IF Head(ls) \in GoodLines THEN <<GoodChunk(Head(ls))>> ELSE <<>>)
            \o FrameChunks(Tail(ls))

\* What does hold: each chunk carries the reason of its own frame (gateway: STOP
\* exactly when the frame is marked finished; SDK streams: the mapped reason of
\* the native chunk), wherever in the sequence the frame is.
ReasonFollowsFrame ==
    \A c \in CallIds :
        /\ kind[c] = "api" =>
              IsPrefix(delivered[c], FrameChunks(TerminatedLines(wire[c], <<>>)))
        /\ kind[c] \in {"openai", "anthropic"} =>
              IsPrefix(delivered[c], SdkChunks(kind[c], sdkWire[c]))

\* ------------------------------------------------------------------ C16

\* C16: no operation retries.  A call of generateContent, generateContentStream
\* or embedContent invokes its transport at most once, exactly once when the
\* transport failed, and the failure is what the call ends with; countTokens on
\* the gateway, OpenAI and Anthropic adapters invokes no transport.
C16_NoRetry ==
    /\ opCalls <= 1
    /\ (opName = "countTokens" /\ opKind \in Estimators) => opCalls = 0
    /\ (opPc = "done" /\ opErr # <<>> /\ opName = "generateContent") =>
          /\ opCalls = 1
          /\ opErr \in (IF opKind = "native" THEN {SdkFailed}
                        ELSE {<<OpTags(opKind).generateContent>> \o e : e \in TransportFailures(opKind)})
    /\ opPc = "transport" => opCalls = 1
    /\ \A c \in CallIds :
          /\ transportCalls[c] <= 1
          /\ (outcome[c] = "error" /\ err[c] \in {FetchFailed, <<"OpenAI API error">> \o SdkFailed,
                                                  <<"Anthropic API error">> \o SdkFailed})
                => transportCalls[c] = 1 /\ pc[c] = "done"

\* The gateway's fetch failed once and generateContent raised it
C16_Witness ==
    /\ opName = "generateContent" /\ opKind = "api" /\ opPc = "done"
    /\ opErr = <<"API content generation error", "fetch failed">>
    /\ opCalls = 1

\* A failed transport of a stream is not invoked again
C16_WitnessStream ==
    \E c \in CallIds : outcome[c] = "error" /\ err[c] = FetchFailed /\ transportCalls[c] = 1

\* ------------------------------------------------------------------ C17

\* The native counter, 0 when the provider omits it
NativeOrZero(usage, field) ==
    IF usage = <<>> THEN 0
    ELSE IF usage[1][field] = <<>> THEN 0
    ELSE usage[1][field][1]

\* C17 as stated: every response generateContent returns on the gateway, OpenAI
\* and Anthropic adapters carries usage counters, each a number: the native
\* counter when the provider supplies it, 0 when it omits it (the gateway's only
\* counter, tokens_used, is the completion and the total count; Anthropic
\* supplies no total).
C17_UsageZeroFilled ==
    (opName = "generateContent" /\ opKind \in Estimators /\ Returned) =>
        /\ opResult.usageMetadata # <<>>
        /\ LET usage == opResult.usageMetadata[1]
           IN  /\ usage.promptTokenCount \in Nat
               /\ usage.candidatesTokenCount \in Nat
               /\ usage.totalTokenCount \in Nat
               /\ opKind = "openai" =>
                     /\ usage.promptTokenCount = NativeOrZero(opResponse.usage, "prompt_tokens")
                     /\ usage.candidatesTokenCount = NativeOrZero(opResponse.usage, "completion_tokens")
                     /\ usage.totalTokenCount = NativeOrZero(opResponse.usage, "total_tokens")
               /\ opKind = "anthropic" =>
                     /\ usage.promptTokenCount = NativeOrZero(opResponse.usage, "input_tokens")
                     /\ usage.candidatesTokenCount = NativeOrZero(opResponse.usage, "output_tokens")
               /\ opKind = "api" =>
                     /\ usage.promptTokenCount = 0
                     /\ usage.candidatesTokenCount = NativeOrZero(opResponse.metadata, "tokens_used")
                     /\ usage.totalTokenCount = NativeOrZero(opResponse.metadata, "tokens_used")

\* What does hold: OpenAI and Anthropic responses always carry the counters,
\* zero-filled; a gateway response carries them exactly when the gateway
\* supplied a non-zero tokens_used.
UsageZeroFilledWhereCarried ==
    (opName = "generateContent" /\ opKind \in Estimators /\ Returned) =>
        /\ opKind \in {"openai", "anthropic"} => opResult.usageMetadata # <<>>
        /\ opKind = "api" =>
              (opResult.usageMetadata # <<>>) = (NativeOrZero(opResponse.metadata, "tokens_used") # 0)
        /\ opResult.usageMetadata # <<>> =>
              LET usage == opResult.usageMetadata[1]
              IN  /\ opKind = "openai" =>
                        /\ usage.promptTokenCount = NativeOrZero(opResponse.usage, "prompt_tokens")
                        /\ usage.candidatesTokenCount = NativeOrZero(opResponse.usage, "completion_tokens")
                        /\ usage.totalTokenCount = NativeOrZero(opResponse.usage, "total_tokens")
                  /\ opKind = "anthropic" =>
                        /\ usage.promptTokenCount = NativeOrZero(opResponse.usage, "input_tokens")
                        /\ usage.candidatesTokenCount = NativeOrZero(opResponse.usage, "output_tokens")
                        /\ usage.totalTokenCount \in Nat
                  /\ opKind = "api" =>
                        /\ usage.promptTokenCount = 0
                        /\ usage.candidatesTokenCount = NativeOrZero(opResponse.metadata, "tokens_used")
                        /\ usage.totalTokenCount = usage.candidatesTokenCount

\* ------------------------------------------------------------------ specification: two calls on one adapter

\* Call c1 is a stream; the call beside it is a second stream (c2) or a
\* generateContent.  The transports of c1 carry the text "a", those of the other
\* call the text "b".
OwnText(c) == IF c = "c1" THEN "a" ELSE "b"

ConcurrentApiWires(c) ==
    IF c = "c1"
    THEN {JoinLines(<<GoodLineA, GoodLineA>>, FALSE), JoinLines(<<GoodLineA, MalformedLine>>, FALSE)}
    ELSE {JoinLines(<<GoodLineB>>, FALSE), JoinLines(<<BlankLine, GoodLineB>>, FALSE)}

ConcurrentSdkWires(k, c) ==
    IF k = "openai"
    THEN { << [choices |-> << [content |-> OwnText(c), finish_reason |-> UNDEF] >>],
              [choices |-> <<>>] >>,
           << [choices |-> << [content |-> OwnText(c), finish_reason |-> "stop"] >>] >> }
    ELSE { << [type |-> "content_block_delta", text |-> OwnText(c), stop_reason |-> UNDEF],
              [type |-> "message_delta", text |-> UNDEF, stop_reason |-> "end_turn"] >> }

\* The config the adapter of kind k is constructed from
ConfigOf(k) ==
    CASE k = "api" -> [BaseConfig(USE_API) EXCEPT !.apiEndpoint = TRUE, !.apiAuthToken = TRUE,
                                                  !.apiModel = "gpt-4o"]
      [] k = "openai" -> [BaseConfig(USE_OPENAI) EXCEPT !.openaiApiKey = TRUE, !.openaiModel = "gpt-4o"]
      [] k = "anthropic" -> [BaseConfig(USE_ANTHROPIC) EXCEPT !.anthropicApiKey = TRUE,
                                                              !.anthropicModel = "claude-opus-4-1"]

ConcurrentInit ==
    /\ \E k \in {"api", "openai", "anthropic"} : \E second \in {"stream", "generateContent"} :
          /\ kind = [c \in CallIds |-> IF c = "c1" \/ second = "stream" THEN k ELSE "none"]
          /\ wire \in
                {f \in [CallIds -> UNION {ConcurrentApiWires(c) : c \in CallIds} \cup {<<>>}] :
                    \A c \in CallIds :
                        f[c] \in (IF k = "api" /\ (c = "c1" \/ second = "stream")
                                  THEN ConcurrentApiWires(c) ELSE {<<>>})}
          /\ sdkWire \in
                {f \in [CallIds -> UNION {ConcurrentSdkWires(k, c) : c \in CallIds} \cup {<<>>}] :
                    \A c \in CallIds :
                        f[c] \in (IF k # "api" /\ (c = "c1" \/ second = "stream")
                                  THEN ConcurrentSdkWires(k, c) ELSE {<<>>})}
          /\ IF second = "generateContent"
             THEN /\ opKind = k
                  /\ opName = "generateContent"
                  /\ opContents \in {StringContents(<<"b">>),
                                     ArrayContents(<<ContentEntry("user", <<TextPart(<<"b">>)>>)>>)}
                  /\ opRequest = NoRequest
                  /\ opResponse = NoResponse
                  /\ opPc = "call"
                  /\ opCalls = 0
                  /\ opResult = NoResult
                  /\ opErr = <<>>
             ELSE NoOps
          /\ env = [present |-> {}, selectedModel |-> UNDEF]
          /\ authType = ConfigOf(k).authType
          /\ config = ConfigOf(k)
          /\ fpc = "done"
          /\ constructed = createContentGenerator(ConfigOf(k), TRUE).constructed
          /\ generator = createContentGenerator(ConfigOf(k), TRUE).generator
          /\ ferr = <<>>
    /\ pc = [c \in CallIds |-> "idle"]
    /\ pos = [c \in CallIds |-> 0]
    /\ buffer = [c \in CallIds |-> <<>>]
    /\ pending = [c \in CallIds |-> <<>>]
    /\ delivered = [c \in CallIds |-> <<>>]
    /\ readerHeld = [c \in CallIds |-> FALSE]
    /\ releaseCalls = [c \in CallIds |-> 0]
    /\ transportCalls = [c \in CallIds |-> 0]
    /\ outcome = [c \in CallIds |-> "none"]
    /\ err = [c \in CallIds |-> <<>>]
    /\ reassembled = [c \in CallIds |-> FALSE]
    /\ NoLookups

ConcurrentNext ==
    \/ \E c \in CallIds : StreamStep(c)
    \/ GenerateContent
    \/ GenerateTransport

ConcurrentSpec == ConcurrentInit /\ [][ConcurrentNext]_vars

\* ------------------------------------------------------------------ C18

\* The text after the last newline of w
RECURSIVE UnterminatedTail(_)
UnterminatedTail(w) ==
    IF \A i \in 1..Len(w) : w[i] # NL THEN w
    ELSE UnterminatedTail(Tail(w))

\* The chunks the transport of call c stands for
OwnChunks(c) ==
    IF kind[c] = "api" THEN FrameChunks(TerminatedLines(wire[c], <<>>))
    ELSE SdkChunks(kind[c], sdkWire[c])

TextOf(chunk) == chunk.candidates[1].content.parts[1].text

EachCallItsOwn ==
    /\ \A c \in CallIds : kind[c] # "none" =>
          /\ IsPrefix(delivered[c], OwnChunks(c))
          /\ outcome[c] = "completed" => delivered[c] = OwnChunks(c)
          /\ \A i \in 1..Len(delivered[c]) : TextOf(delivered[c][i]) = OwnText(c)
          /\ transportCalls[c] <= 1
          /\ pc[c] \in {"reading", "suspended"} => transportCalls[c] = 1
          /\ kind[c] = "api" => buffer[c] = UnterminatedTail(SubSeq(wire[c], 1, pos[c]))
    /\ opName = "generateContent" =>
          /\ opCalls <= 1
          /\ opPc \in {"transport", "done"} =>
                /\ opCalls = 1
                /\ opKind = "api" => opRequest.message = convertContentsToMessage(opContents)
                /\ opKind # "api" => MessagesText(opRequest.messages) = <<"b">>
          /\ Returned =>
                opResult = (CASE opKind = "api" -> convertApiResponseToGemini(opResponse)
                              [] opKind = "openai" -> convertOpenAIResponseToGemini(opResponse)
                              [] opKind = "anthropic" -> convertAnthropicResponseToGemini(opResponse))

\* No step of a call assigns a field of the adapter
AdapterFieldsKept == config' = config /\ generator' = generator /\ constructed' = constructed

\* C18: two calls running concurrently on one adapter instance, under every
\* interleaving of their steps, each have their own transport invocation and
\* their own decode buffer: each consumer holds a prefix of the chunks of its own
\* transport, all of them at completion, no text of the other call, and no step
\* changes the adapter's fields.
C18_ConcurrentCallsIndependent == []EachCallItsOwn /\ [][AdapterFieldsKept]_vars

\* Both gateway calls are in the middle of a frame at once, c1 after a chunk
C18_Witness ==
    /\ kind = [c \in CallIds |-> "api"]
    /\ buffer["c1"] # <<>> /\ buffer["c2"] # <<>>
    /\ delivered["c1"] # <<>>
    /\ generator.inner = "ApiContentGenerator"

\* A stream and a generateContent of one adapter both ended with their own result
C18_WitnessGenerate ==
    /\ kind["c1"] = "api" /\ outcome["c1"] = "completed" /\ Len(delivered["c1"]) = 2
    /\ opName = "generateContent" /\ Returned /\ opRequest.message = <<"b">>

\* ------------------------------------------------------------------ C19

\* The texts ts with a single space between neighbours
RECURSIVE SpaceJoined(_)
SpaceJoined(ts) ==
    IF ts = <<>> THEN <<>>
    ELSE IF Len(ts) = 1 THEN ts[1]
    ELSE SpaceJoined(Front(ts)) \o <<" ">> \o Last(ts)

\* The texts of the parts of an entry (none for an entry without parts, the
\* empty text for a part without text)
PartTexts(entry) ==
    IF entry.hasParts
    THEN [i \in 1..Len(entry.parts) |-> IF entry.parts[i].hasText THEN entry.parts[i].text ELSE <<>>]
    ELSE <<>>

\* C19: the role messages OpenAI and Anthropic hand to their transport keep the
\* entries of contents one to one and in order: a raw string gives one user
\* message with that text; n entries give n messages, message i of role user
\* when entry i is a string or has role 'user' and assistant otherwise, its text
\* the entry's string or its part texts joined by a single space; any other
\* shape gives no message; the message texts joined by a single space are the
\* flattened text of contents, which for a raw string is the string.
C19_RoleMessages ==
    (opName = "generateContent" /\ opKind \in {"openai", "anthropic"}
        /\ opPc \in {"transport", "done"}) =>
        LET messages == opRequest.messages
            entries == opContents.entries
        IN  /\ opContents.shape = "string" =>
                  /\ messages = << [role |-> "user", content |-> opContents.text] >>
                  /\ convertContentsToMessage(opContents) = opContents.text
            /\ opContents.shape = "array" =>
                  /\ Len(messages) = Len(entries)
                  /\ \A i \in 1..Len(entries) :
                        /\ messages[i].role =
                              (IF entries[i].isString \/ entries[i].role = "user"
                               THEN "user" ELSE "assistant")
                        /\ messages[i].content =
                              (IF entries[i].isString THEN entries[i].text
                               ELSE SpaceJoined(PartTexts(entries[i])))
            /\ opContents.shape = "other" => messages = <<>>
            /\ SpaceJoined([i \in 1..Len(messages) |-> messages[i].content])
                  = convertContentsToMessage(opContents)

C19_Witness ==
    /\ opName = "generateContent" /\ opKind = "anthropic" /\ opPc = "transport"
    /\ opContents = ArrayContents(<<ContentEntry("model", <<TextPart(<<"a">>), TextPart(<<"b", "c">>)>>),
                                    StringEntry(<<"a">>)>>)
    /\ opRequest.messages = << [role |-> "assistant", content |-> <<"a", " ", "b", "c">>],
                               [role |-> "user", content |-> <<"a">>] >>

\* ------------------------------------------------------------------ C20

\* C20 as stated: when the gateway stream has completed, every well-formed
\* frame with non-empty text the transport delivered has given its chunk, the
\* frame of a last line without newline included, and the decode buffer holds
\* no frame.
C20_NoFrameLeftUnprocessed ==
    \A c \in ApiCalls :
        outcome[c] = "completed" =>
            /\ delivered[c] = FrameChunks(Split(wire[c]))
            /\ buffer[c] \notin GoodLines

\* What does hold: at completion the frames of the lines that end in a newline
\* have given their chunks, and the text after the last newline is still in the
\* buffer, never looked at.
TerminatedFramesProcessed ==
    \A c \in ApiCalls :
        outcome[c] = "completed" =>
            /\ delivered[c] = FrameChunks(TerminatedLines(wire[c], <<>>))
            /\ buffer[c] = UnterminatedTail(wire[c])

\* ------------------------------------------------------------------ C21

\* C21 as stated: in every response generateContent returns with usage counters
\* on the gateway and Anthropic adapters, the total count is the prompt count
\* plus the candidates count, whichever native counters the provider supplied.
C21_TotalIsSum ==
    (opName = "generateContent" /\ opKind \in {"api", "anthropic"} /\ Returned
        /\ opResult.usageMetadata # <<>>) =>
        LET usage == opResult.usageMetadata[1]
        IN  usage.totalTokenCount = usage.promptTokenCount + usage.candidatesTokenCount

\* Both native counters of the Anthropic response are supplied
BothSupplied ==
    /\ opResponse.usage # <<>>
    /\ opResponse.usage[1].input_tokens # <<>>
    /\ opResponse.usage[1].output_tokens # <<>>

\* What does hold: the total is the sum on the gateway, and on Anthropic when
\* both native counters are supplied; with one of them omitted the Anthropic
\* total is 0, whatever the other counter is.
TotalIsSumWhenBothSupplied ==
    (opName = "generateContent" /\ opKind \in {"api", "anthropic"} /\ Returned
        /\ opResult.usageMetadata # <<>>) =>
        LET usage == opResult.usageMetadata[1]
        IN  /\ opKind = "api" =>
                  usage.totalTokenCount = usage.promptTokenCount + usage.candidatesTokenCount
            /\ (opKind = "anthropic" /\ BothSupplied) =>
                  usage.totalTokenCount = usage.promptTokenCount + usage.candidatesTokenCount
            /\ (opKind = "anthropic" /\ ~BothSupplied) => usage.totalTokenCount = 0

====
